---- MODULE Spec2Model ----
(***************************************************************************)
(* MindMate: the Flask handlers of app.py over the SQLite store of         *)
(* database.py.  One action per HTTP handler; every handler opens its own  *)
(* connection, so a request is one atomic step over the tables.            *)
(*                                                                         *)
(* Text is a TLA+ string (Len, SubSeq and \o act on strings in TLC), so    *)
(* str.lower, str.strip and the `in` operator are computed on characters. *)
(***************************************************************************)
EXTENDS Integers, Sequences, FiniteSets, TLC

VARIABLES
    moods,               \* rows of table moods, in insertion order
    journal_entries,     \* rows of table journal_entries
    chat_conversations,  \* rows of table chat_conversations
    breathing_sessions,  \* rows of table breathing_sessions
    user_settings,       \* rows of table user_settings
    sqlite_sequence,     \* AUTOINCREMENT: the largest id ever given, per table
    schema,              \* the tables the database file holds: name |-> columns
    connections,         \* the sqlite3 connections of update_user_setting calls
    now,                 \* the clock, in seconds
    last                 \* the last request: its payload, environment and response

tables == <<moods, journal_entries, chat_conversations, breathing_sessions,
            user_settings, sqlite_sequence, schema, connections>>
vars == <<moods, journal_entries, chat_conversations, breathing_sessions,
          user_settings, sqlite_sequence, schema, connections, now, last>>

(***************************************************************************)
(* Bounds of the model.                                                    *)
(***************************************************************************)
\* Fragments concatenated into one chat message (SpecChat).
MaxFrags == 2
\* Rows inserted over a behaviour of Spec, all tables together.
MaxWrites == 2
\* Clock advances over a behaviour of Spec.
MaxTicks == 2

\* Mood rows per behaviour of SpecStats.
MaxMoods == 5

\* Calls of update_user_setting per behaviour of SpecSettings.
MaxCalls == 2

(***************************************************************************)
(* Python values.                                                          *)
(***************************************************************************)
\* Python's None (JSON null).  No text of the model's domains equals it.
None == "<None>"

\* bool(v) of a str-or-None value: None and "" are falsy.
Truthy(v) == v # None /\ v # ""

\* The characters str.strip() removes (the ASCII ones the model's texts use).
Whitespace == {" ", "\t", "\n"}

\* str.lower() on the letters; every other character is kept.
LowerOf ==
    [A |-> "a", B |-> "b", C |-> "c", D |-> "d", E |-> "e", F |-> "f", G |-> "g",
     H |-> "h", I |-> "i", J |-> "j", K |-> "k", L |-> "l", M |-> "m", N |-> "n",
     O |-> "o", P |-> "p", Q |-> "q", R |-> "r", S |-> "s", T |-> "t", U |-> "u",
     V |-> "v", W |-> "w", X |-> "x", Y |-> "y", Z |-> "z"]

LowerChar(c) == IF c \in DOMAIN LowerOf THEN LowerOf[c] ELSE c

\* The characters of a str, in order.
Chars(s) == [i \in 1..Len(s) |-> SubSeq(s, i, i)]

\* str.lower(), as the characters of the lower-cased text.
lower(s) == [i \in 1..Len(s) |-> LowerChar(SubSeq(s, i, i))]

RECURSIVE lstrip(_)
lstrip(s) ==
    IF s # "" /\ SubSeq(s, 1, 1) \in Whitespace
    THEN lstrip(SubSeq(s, 2, Len(s)))
    ELSE s

\* Mutant of rstrip: trailing whitespace stays.
rstrip_nothing(s) == s

RECURSIVE rstrip(_)
rstrip(s) ==
    IF s # "" /\ SubSeq(s, Len(s), Len(s)) \in Whitespace
    THEN rstrip(SubSeq(s, 1, Len(s) - 1))
    ELSE s

\* Mutant of strip: the text is used as typed.
strip_nothing(s) == s

\* str.strip(): leading and trailing whitespace removed, inner whitespace kept.
strip(s) == rstrip(lstrip(s))

\* Python's `needle in hay`: the characters of needle occur, in a row, at
\* some position of the characters hay.
Contains(hay, needle) ==
    LET n == Chars(needle)
    IN  \E i \in 1..(Len(hay) - Len(n) + 1) :
            \A j \in 1..Len(n) : hay[i + j - 1] = n[j]

(***************************************************************************)
(* The literals of chat_with_ai.                                           *)
(***************************************************************************)
crisis_keywords ==
    <<"suicide", "kill myself", "end it all", "hurt myself", "self-harm", "crisis">>

\* The reply of the crisis branch (the emoji before "**Emergency Resources:**"
\* is written [SOS]).
crisis_response ==
    "I'm really concerned about you and want you to know that you're not alone. Please reach out for immediate help:\n\n[SOS] **Emergency Resources:**\n- **Crisis Text Line**: Text HOME to 741741\n- **National Suicide Prevention Lifeline**: Call or text 988\n- **Emergency**: Call 911\n\nYou matter, and there are people who want to help you through this difficult time. Would you like to talk about what's making you feel this way?"

\* The reply used when the completion has no content.
empty_completion_reply == "I'm here to listen. Please tell me more."

\* The dict fallback_responses, in its insertion order (the order a Python
\* dict iterates in).
fallback_responses == <<
    [emotion |-> "stressed",
     response |-> "I understand you're feeling stressed. Try taking three deep breaths with me: inhale for 4 counts, hold for 7, exhale for 8. Stress is temporary, and you have the strength to work through this. What's one small thing you could do right now to feel a bit better?"],
    [emotion |-> "anxious",
     response |-> "Anxiety can feel overwhelming, but you're not alone in this. Ground yourself by naming 5 things you can see, 4 you can touch, 3 you can hear, 2 you can smell, and 1 you can taste. Would you like to try some breathing exercises or talk about what's making you anxious?"],
    [emotion |-> "sad",
     response |-> "I'm sorry you're feeling sad. It's okay to feel this way - your emotions are valid. Sometimes sadness helps us process important experiences. Would journaling help? Writing down your thoughts can sometimes bring clarity and relief."],
    [emotion |-> "happy",
     response |-> "I'm so glad to hear you're feeling good! It's wonderful when we can appreciate positive moments. What's bringing you joy today? Celebrating these feelings can help us remember them during tougher times."],
    [emotion |-> "tired",
     response |-> "Being tired can affect everything - your mood, thoughts, and energy. Are you getting enough sleep? Sometimes tiredness is our body's way of asking for rest or self-care. What would help you feel more energized?"] >>

generic_fallback_reply ==
    "Thank you for sharing with me. I'm here to listen and support you. Sometimes it helps to talk through what we're experiencing. Would you like to tell me more about how you're feeling today?"

(***************************************************************************)
(* The pure parts of chat_with_ai.                                         *)
(***************************************************************************)
\* Mutant of is_crisis: the message is searched as typed, without lower().
is_crisis_as_typed(user_message) ==
    \E k \in DOMAIN crisis_keywords :
        Contains(Chars(user_message), crisis_keywords[k])

\* is_crisis = any(keyword in user_message.lower() for keyword in crisis_keywords)
is_crisis(user_message) ==
    LET message_lower == lower(user_message)
    IN  \E k \in DOMAIN crisis_keywords :
            Contains(message_lower, crisis_keywords[k])

\* Mutant of fallback_scan: the loop without its break, so the last entry
\* whose emotion is in message_lower wins.
RECURSIVE fallback_scan_no_break(_, _)
fallback_scan_no_break(message_lower, k) ==
    IF k > Len(fallback_responses) THEN None
    ELSE LET later == fallback_scan_no_break(message_lower, k + 1)
         IN  IF later # None THEN later
             ELSE IF Contains(message_lower, fallback_responses[k].emotion)
                  THEN fallback_responses[k].response
                  ELSE None

\* The for loop over fallback_responses.items(), from entry k on: the first
\* entry whose emotion is in message_lower sets ai_response and breaks.
RECURSIVE fallback_scan(_, _)
fallback_scan(message_lower, k) ==
    IF k > Len(fallback_responses) THEN None
    ELSE IF Contains(message_lower, fallback_responses[k].emotion)
         THEN fallback_responses[k].response
         ELSE fallback_scan(message_lower, k + 1)

\* The except branch: the scan, then the generic reply if nothing was set.
fallback_reply(user_message) ==
    LET ai_response == fallback_scan(lower(user_message), 1)
    IN  IF ~Truthy(ai_response) THEN generic_fallback_reply ELSE ai_response

\* Mutant of completion_reply: the completion is used as it came.
completion_reply_untrimmed(content) ==
    IF Truthy(content) THEN content ELSE empty_completion_reply

\* The try branch after a completion came back with `content`.
completion_reply(content) ==
    IF Truthy(content) THEN strip(content) ELSE empty_completion_reply

\* Mutant of ai_reply: a failed completion call is answered with the error
\* text instead of the fallback.
ai_reply_error_text(user_message, remote) ==
    IF remote.raises THEN "Error: completion failed"
    ELSE completion_reply(remote.content)

\* The reply of a turn that is not crisis language.  `remote` is what the
\* completion call does: it raises, or returns `content`.
ai_reply(user_message, remote) ==
    IF remote.raises THEN fallback_reply(user_message)
    ELSE completion_reply(remote.content)

(***************************************************************************)
(* The store: sqlite3 tables with INTEGER PRIMARY KEY AUTOINCREMENT.       *)
(***************************************************************************)
TableNames ==
    {"moods", "journal_entries", "chat_conversations", "breathing_sessions",
     "user_settings"}

RowIds(rows) == {rows[i].id : i \in DOMAIN rows}

SetMax(S) == CHOOSE x \in S : \A y \in S : y <= x

\* Mutant of next_rowid: the largest id the table ever held, given again.
next_rowid_reused(rows, name) == SetMax(RowIds(rows) \cup {sqlite_sequence[name]})

\* AUTOINCREMENT: one more than the largest id the table ever held.
next_rowid(rows, name) == SetMax(RowIds(rows) \cup {sqlite_sequence[name]}) + 1

\* datetime.now().strftime('%Y%m%d_%H%M%S'): one text per clock second.
strftime(t) == ToString(t)

\* str(uuid.uuid4()): an identifier no stored turn carries.
UuidOf(k) == "uuid4-" \o ToString(k)
uuid4 == UuidOf(Len(chat_conversations) + 1)

\* database.log_chat_conversation: the generated id when conversation_id is
\* falsy, then the INSERT.
log_chat_conversation(user_message, ai_response, conversation_id) ==
    LET cid == IF ~Truthy(conversation_id)
               THEN "conv_" \o strftime(now)
               ELSE conversation_id
        chat_id == next_rowid(chat_conversations, "chat_conversations")
    IN  /\ chat_conversations' = Append(chat_conversations,
              [id |-> chat_id, user_message |-> user_message,
               ai_response |-> ai_response, conversation_id |-> cid,
               timestamp |-> now, created_at |-> now])
        /\ sqlite_sequence' = [sqlite_sequence EXCEPT !["chat_conversations"] = chat_id]
        /\ UNCHANGED <<moods, journal_entries, breathing_sessions, user_settings, schema, connections>>

(***************************************************************************)
(* Requests and responses.                                                 *)
(***************************************************************************)
\* The completion call's outcome when no call is made.
NoRemote == [raises |-> FALSE, content |-> None]

\* A JSON object without members; a request without arguments.
NoData == [k \in {} |-> ""]

\* jsonify(body), status: what the handler returns, kept in `last` with the
\* request it answers: the payload, what the completion call and the store
\* did, the handler's local is_crisis (FALSE when the handler returned before
\* computing it) and the number of completion calls made.
Respond(op, data, remote, fault, status, body, crisis, remote_calls) ==
    last' = [op |-> op, data |-> data, remote |-> remote, fault |-> fault,
             status |-> status, body |-> body, is_crisis |-> crisis,
             remote_calls |-> remote_calls]

\* The crisis branch's jsonify, and the one after the try/except.
chat_body(crisis, ai_response, conversation_id) ==
    IF crisis
    THEN [reply |-> ai_response, conversation_id |-> conversation_id,
          is_crisis |-> TRUE]
    ELSE [reply |-> ai_response, conversation_id |-> conversation_id,
          timestamp |-> now]

\* Mutant of completion_calls: the completion is asked for before the
\* crisis test.
completion_calls_before_crisis_test(crisis) == 1

\* The calls of client.chat.completions.create one accepted request makes:
\* the crisis branch returns before the call; otherwise the one call in the
\* try, whose except computes the fallback and does not call again.
completion_calls(crisis) == IF crisis THEN 0 ELSE 1

\* POST /api/chat.  `data` is the JSON payload, `remote` the outcome of the
\* completion call (if one is made), `fault` whether sqlite3 raises in
\* log_chat_conversation.
chat_with_ai(data, remote, fault) ==
    IF "message" \notin DOMAIN data
    THEN /\ Respond("chat", data, remote, fault, 400,
                    [error |-> "Missing 'message' in request"], FALSE, 0)
         /\ UNCHANGED <<tables, now>>
    ELSE IF data.message = None
    THEN \* None has no strip(): AttributeError, answered by the outer except
         /\ Respond("chat", data, remote, fault, 500,
                    [error |-> "Chat error: AttributeError"], FALSE, 0)
         /\ UNCHANGED <<tables, now>>
    ELSE
    LET user_message == strip(data.message) IN
    IF user_message = ""
    THEN /\ Respond("chat", data, remote, fault, 400,
                    [error |-> "Message cannot be empty"], FALSE, 0)
         /\ UNCHANGED <<tables, now>>
    ELSE
    LET conversation_id == IF "conversation_id" \in DOMAIN data
                           THEN data.conversation_id
                           ELSE uuid4
        crisis == is_crisis(user_message)
        ai_response == IF crisis THEN crisis_response
                       ELSE ai_reply(user_message, remote)
        remote_calls == completion_calls(crisis)
    IN  IF fault
        THEN \* sqlite3 raises in log_chat_conversation: the outer except answers
             /\ Respond("chat", data, remote, fault, 500,
                        [error |-> "Chat error: sqlite3.Error"], crisis, remote_calls)
             /\ UNCHANGED <<tables, now>>
        ELSE /\ log_chat_conversation(user_message, ai_response, conversation_id)
             /\ Respond("chat", data, remote, fault, 200,
                        chat_body(crisis, ai_response, conversation_id),
                        crisis, remote_calls)
             /\ UNCHANGED now

(***************************************************************************)
(* database.py: the writes.  Each is one INSERT and its commit; the row    *)
(* gets its timestamps from DEFAULT CURRENT_TIMESTAMP (second resolution). *)
(***************************************************************************)
\* Mutant of log_mood: the row replaces the rows of the same mood_type.
log_mood_upsert(mood_type, mood_emoji, intensity, notes) ==
    LET mood_id == next_rowid(moods, "moods")
        Other(row) == row.mood_type # mood_type
    IN  /\ moods' = Append(SelectSeq(moods, Other),
              [id |-> mood_id, mood_type |-> mood_type, mood_emoji |-> mood_emoji,
               intensity |-> intensity, notes |-> notes,
               timestamp |-> now, created_at |-> now])
        /\ sqlite_sequence' = [sqlite_sequence EXCEPT !["moods"] = mood_id]
        /\ UNCHANGED <<journal_entries, chat_conversations, breathing_sessions,
                       user_settings, schema, connections>>

log_mood(mood_type, mood_emoji, intensity, notes) ==
    LET mood_id == next_rowid(moods, "moods")
    IN  /\ moods' = Append(moods,
              [id |-> mood_id, mood_type |-> mood_type, mood_emoji |-> mood_emoji,
               intensity |-> intensity, notes |-> notes,
               timestamp |-> now, created_at |-> now])
        /\ sqlite_sequence' = [sqlite_sequence EXCEPT !["moods"] = mood_id]
        /\ UNCHANGED <<journal_entries, chat_conversations, breathing_sessions,
                       user_settings, schema, connections>>

save_journal_entry(content, title, mood_at_time, tags) ==
    LET entry_id == next_rowid(journal_entries, "journal_entries")
    IN  /\ journal_entries' = Append(journal_entries,
              [id |-> entry_id, title |-> title, content |-> content,
               mood_at_time |-> mood_at_time, tags |-> tags,
               timestamp |-> now, created_at |-> now])
        /\ sqlite_sequence' = [sqlite_sequence EXCEPT !["journal_entries"] = entry_id]
        /\ UNCHANGED <<moods, chat_conversations, breathing_sessions, user_settings,
                       schema, connections>>

log_breathing_session(duration, cycles_completed, session_type) ==
    LET session_id == next_rowid(breathing_sessions, "breathing_sessions")
    IN  /\ breathing_sessions' = Append(breathing_sessions,
              [id |-> session_id, session_duration |-> duration,
               cycles_completed |-> cycles_completed, session_type |-> session_type,
               timestamp |-> now, created_at |-> now])
        /\ sqlite_sequence' = [sqlite_sequence EXCEPT !["breathing_sessions"] = session_id]
        /\ UNCHANGED <<moods, journal_entries, chat_conversations, user_settings,
                       schema, connections>>

\* The rows of user_settings that do not hold `key`, in their order.
RECURSIVE RowsWithout(_, _)
RowsWithout(rows, key) ==
    IF rows = <<>> THEN <<>>
    ELSE IF Head(rows).setting_key = key THEN RowsWithout(Tail(rows), key)
         ELSE <<Head(rows)>> \o RowsWithout(Tail(rows), key)

\* Mutant of update_user_setting: a key that has a row keeps it.
update_user_setting_or_ignore(rows, seq, key, value) ==
    IF \E i \in DOMAIN rows : rows[i].setting_key = key
    THEN [rows |-> rows, seq |-> seq]
    ELSE LET id == SetMax(RowIds(rows) \cup {seq}) + 1
         IN  [rows |-> Append(rows,
                              [id |-> id, setting_key |-> key,
                               setting_value |-> value, updated_at |-> now]),
              seq |-> id]

\* INSERT OR REPLACE on the UNIQUE setting_key: the row holding the key, if
\* any, is deleted and a new row (with a new id) is inserted.
update_user_setting(rows, seq, key, value) ==
    LET id == SetMax(RowIds(rows) \cup {seq}) + 1
    IN  [rows |-> Append(RowsWithout(rows, key),
                         [id |-> id, setting_key |-> key, setting_value |-> value,
                          updated_at |-> now]),
         seq |-> id]

\* SELECT setting_value ... WHERE setting_key = ?; the default when no row.
get_user_setting(key, default_value) ==
    LET found == {i \in DOMAIN user_settings : user_settings[i].setting_key = key}
    IN  IF found = {} THEN default_value
        ELSE user_settings[CHOOSE i \in found : TRUE].setting_value

(***************************************************************************)
(* database.update_user_setting, statement by statement.  Each call opens  *)
(* its own connection; the INSERT OR REPLACE opens a transaction and takes *)
(* the write lock of the database file; commit() writes the transaction    *)
(* and gives the lock back.  A connection that finds the lock taken waits, *)
(* and raises "database is locked" when the wait times out.                *)
(***************************************************************************)
\* A call not made yet.
NoConnection ==
    [state |-> "none", key |-> None, value |-> None,
     pending |-> [rows |-> <<>>, seq |-> 0], started |-> 0, finished |-> 0]

\* The next stamp of the order in which calls start and finish.
NextStamp ==
    1 + SetMax({connections[c].started : c \in DOMAIN connections}
               \cup {connections[c].finished : c \in DOMAIN connections})

\* Mutant of write_lock_free: no lock is looked at.
write_lock_ignored(c) == TRUE

\* No other connection holds the write lock.
write_lock_free(c) ==
    \A d \in DOMAIN connections : d # c => connections[d].state # "written"

\* conn = sqlite3.connect(DATABASE_PATH); cursor = conn.cursor()
connect(c, key, value) ==
    /\ connections[c].state = "none"
    /\ connections' = [connections EXCEPT ![c] =
                          [@ EXCEPT !.state = "open", !.key = key,
                                    !.value = value, !.started = NextStamp]]
    /\ UNCHANGED <<moods, journal_entries, chat_conversations, breathing_sessions,
                   user_settings, sqlite_sequence, schema, now, last>>

\* cursor.execute('INSERT OR REPLACE ...'): the transaction holds the new
\* rows until commit.
execute(c) ==
    /\ connections[c].state = "open"
    /\ write_lock_free(c)
    /\ connections' = [connections EXCEPT ![c] =
                          [@ EXCEPT !.state = "written",
                                    !.pending = update_user_setting(
                                        user_settings,
                                        sqlite_sequence["user_settings"],
                                        connections[c].key,
                                        connections[c].value)]]
    /\ UNCHANGED <<moods, journal_entries, chat_conversations, breathing_sessions,
                   user_settings, sqlite_sequence, schema, now, last>>

\* cursor.execute raises sqlite3.OperationalError (database is locked) when
\* the lock stays taken for the connection's timeout.
execute_locked(c) ==
    /\ connections[c].state = "open"
    /\ ~write_lock_free(c)
    /\ connections' = [connections EXCEPT ![c] =
                          [@ EXCEPT !.state = "failed", !.finished = NextStamp]]
    /\ UNCHANGED <<moods, journal_entries, chat_conversations, breathing_sessions,
                   user_settings, sqlite_sequence, schema, now, last>>

\* conn.commit(); conn.close()
commit(c) ==
    /\ connections[c].state = "written"
    /\ user_settings' = connections[c].pending.rows
    /\ sqlite_sequence' = [sqlite_sequence EXCEPT
                              !["user_settings"] = connections[c].pending.seq]
    /\ connections' = [connections EXCEPT ![c] =
                          [@ EXCEPT !.state = "done", !.finished = NextStamp]]
    /\ UNCHANGED <<moods, journal_entries, chat_conversations, breathing_sessions,
                   schema, now, last>>

(***************************************************************************)
(* database.py: the reads.                                                 *)
(***************************************************************************)
\* The seconds in SQLite's '-1 days'.
SecondsPerDay == 86400

\* Mutant of InLastDays: a row exactly `days` days old is left out.
InLastDays_strict(timestamp, days) ==
    /\ days >= 0
    /\ timestamp > now - days * SecondsPerDay

\* datetime('now', '-{} days'.format(days)).  The modifier '--1 days' of a
\* negative `days` is not one SQLite knows: the result is NULL, and no
\* timestamp compares >= NULL.
InLastDays(timestamp, days) ==
    /\ days >= 0
    /\ timestamp >= now - days * SecondsPerDay

\* The orders ORDER BY timestamp DESC may return the rows at `idx` in: later
\* timestamps first; among equal timestamps SQL fixes no order.
RECURSIVE Perms(_)
Perms(S) ==
    IF S = {} THEN {<<>>}
    ELSE UNION {{<<x>> \o p : p \in Perms(S \ {x})} : x \in S}

NewestFirst(rows, idx) ==
    {o \in Perms(idx) :
        \A a, b \in DOMAIN o :
            a < b => rows[o[a]].timestamp >= rows[o[b]].timestamp}

\* database.get_mood_history(days), for one of the orders the query may
\* return: the dicts of the rows of the last `days` days.
mood_history_entry(mood) ==
    [type |-> mood.mood_type, emoji |-> mood.mood_emoji,
     intensity |-> mood.intensity, notes |-> mood.notes,
     timestamp |-> mood.timestamp]

get_mood_history(days) ==
    LET idx == {i \in DOMAIN moods : InLastDays(moods[i].timestamp, days)}
    IN  {[k \in DOMAIN o |-> mood_history_entry(moods[o[k]])] :
            o \in NewestFirst(moods, idx)}

\* LIMIT ?: the first `limit` rows; a negative limit is no limit.
Limit(rows, limit) ==
    IF limit < 0 \/ limit >= Len(rows) THEN rows ELSE SubSeq(rows, 1, limit)

journal_entry(entry) ==
    [id |-> entry.id, title |-> entry.title, content |-> entry.content,
     mood |-> entry.mood_at_time, tags |-> entry.tags,
     timestamp |-> entry.timestamp]

get_journal_entries(limit) ==
    {Limit([k \in DOMAIN o |-> journal_entry(journal_entries[o[k]])], limit) :
        o \in NewestFirst(journal_entries, DOMAIN journal_entries)}

\* round(x, 1) of x = total / n, in tenths: the nearest tenth, the even one
\* of two equally near (x is then a binary fraction, exact as a float).
RoundTenths(total, n) ==
    LET q == (10 * total) \div n
        r == (10 * total) - q * n
    IN  IF 2 * r < n THEN q
        ELSE IF 2 * r > n THEN q + 1
        ELSE IF q % 2 = 0 THEN q ELSE q + 1

RECURSIVE SumOver(_, _)
SumOver(rows, idx) ==
    IF idx = {} THEN 0
    ELSE LET i == CHOOSE x \in idx : TRUE
         IN  rows[i].intensity + SumOver(rows, idx \ {i})

\* avg_intensity = cursor.fetchone()[0] or 5, then round(avg_intensity, 1),
\* in tenths: AVG is NULL over no rows, and NULL and 0.0 are both falsy.
avg_intensity_tenths ==
    LET idx == {i \in DOMAIN moods : InLastDays(moods[i].timestamp, 7)}
        total == SumOver(moods, idx)
    IN  IF idx = {} \/ total = 0 THEN 50
        ELSE RoundTenths(total, Cardinality(idx))

\* Mutant of mood_counts: the smallest count first.
mood_counts_ascending ==
    LET idx == {i \in DOMAIN moods : InLastDays(moods[i].timestamp, 30)}
        types == {moods[i].mood_type : i \in idx}
        count(t) == Cardinality({i \in idx : moods[i].mood_type = t})
    IN  {[k \in DOMAIN o |-> [mood |-> o[k], count |-> count(o[k])]] :
            o \in {p \in Perms(types) :
                     \A a, b \in DOMAIN p : a < b => count(p[a]) <= count(p[b])}}

\* GROUP BY mood_type ORDER BY count DESC over the last 30 days: the orders
\* the query may return (SQL fixes none among equal counts).
mood_counts ==
    LET idx == {i \in DOMAIN moods : InLastDays(moods[i].timestamp, 30)}
        types == {moods[i].mood_type : i \in idx}
        count(t) == Cardinality({i \in idx : moods[i].mood_type = t})
    IN  {[k \in DOMAIN o |-> [mood |-> o[k], count |-> count(o[k])]] :
            o \in {p \in Perms(types) :
                     \A a, b \in DOMAIN p : a < b => count(p[a]) >= count(p[b])}}

\* database.get_mood_statistics(), for one of the orders of mood_counts.
get_mood_statistics ==
    {[mood_counts |-> c,
      avg_intensity |-> avg_intensity_tenths,
      total_entries |-> Len(journal_entries),
      total_breathing_sessions |-> Len(breathing_sessions)] :
        c \in mood_counts}

(***************************************************************************)
(* app.py: the other handlers.  `fault` is whether sqlite3 raises in the    *)
(* handler's database call; the handler's except answers 500.              *)
(***************************************************************************)
\* dict.get(key, default)
Get(data, key, default) == IF key \in DOMAIN data THEN data[key] ELSE default

\* What a handler without completion call records.
Answer(op, data, fault, status, body) ==
    Respond(op, data, NoRemote, fault, status, body, FALSE, 0)

\* POST /api/mood.  A None mood_type or mood_emoji violates the columns'
\* NOT NULL: sqlite3.IntegrityError.
log_user_mood(data, fault) ==
    IF "mood_type" \notin DOMAIN data \/ "mood_emoji" \notin DOMAIN data
    THEN /\ Answer("mood", data, fault, 400,
                   [error |-> "Missing mood_type or mood_emoji"])
         /\ UNCHANGED <<tables, now>>
    ELSE
    LET mood_type == data.mood_type
        mood_emoji == data.mood_emoji
        intensity == Get(data, "intensity", 5)
        notes == Get(data, "notes", "")
    IN  IF fault \/ mood_type = None \/ mood_emoji = None
        THEN /\ Answer("mood", data, fault, 500,
                       [error |-> "Mood logging error: sqlite3.Error"])
             /\ UNCHANGED <<tables, now>>
        ELSE /\ log_mood(mood_type, mood_emoji, intensity, notes)
             /\ Answer("mood", data, fault, 200,
                       [status |-> "success",
                        message |-> "Mood '" \o mood_type \o "' logged successfully",
                        mood_id |-> next_rowid(moods, "moods"),
                        timestamp |-> now])
             /\ UNCHANGED now

\* GET /api/mood/history.  `args` holds days when the query string gives an
\* integer; the default is 30.
get_user_mood_history(args, fault) ==
    LET days == Get(args, "days", 30)
    IN  /\ IF fault
           THEN Answer("mood_history", args, fault, 500,
                       [error |-> "Error fetching mood history: sqlite3.Error"])
           ELSE \E mood_history \in get_mood_history(days) :
                    Answer("mood_history", args, fault, 200,
                           [moods |-> mood_history,
                            total_count |-> Len(mood_history),
                            days_requested |-> days])
        /\ UNCHANGED <<tables, now>>

\* POST /api/journal.  A None content or title has no strip(): AttributeError.
save_user_journal(data, fault) ==
    IF "content" \notin DOMAIN data
    THEN /\ Answer("journal", data, fault, 400, [error |-> "Missing journal content"])
         /\ UNCHANGED <<tables, now>>
    ELSE IF data.content = None
    THEN /\ Answer("journal", data, fault, 500,
                   [error |-> "Journal save error: AttributeError"])
         /\ UNCHANGED <<tables, now>>
    ELSE
    LET content == strip(data.content) IN
    IF content = ""
    THEN /\ Answer("journal", data, fault, 400,
                   [error |-> "Journal content cannot be empty"])
         /\ UNCHANGED <<tables, now>>
    ELSE IF Get(data, "title", "") = None
    THEN /\ Answer("journal", data, fault, 500,
                   [error |-> "Journal save error: AttributeError"])
         /\ UNCHANGED <<tables, now>>
    ELSE
    LET title == strip(Get(data, "title", ""))
        mood_at_time == Get(data, "mood_at_time", "")
        tags == Get(data, "tags", "")
    IN  IF fault
        THEN /\ Answer("journal", data, fault, 500,
                       [error |-> "Journal save error: sqlite3.Error"])
             /\ UNCHANGED <<tables, now>>
        ELSE /\ save_journal_entry(content, title, mood_at_time, tags)
             /\ Answer("journal", data, fault, 200,
                       [status |-> "success",
                        message |-> "Journal entry saved successfully",
                        entry_id |-> next_rowid(journal_entries, "journal_entries"),
                        timestamp |-> now])
             /\ UNCHANGED now

\* GET /api/journal/entries.  The default limit is 20.
get_user_journal_entries(args, fault) ==
    LET limit == Get(args, "limit", 20)
    IN  /\ IF fault
           THEN Answer("journal_entries", args, fault, 500,
                       [error |-> "Error fetching journal entries: sqlite3.Error"])
           ELSE \E entries \in get_journal_entries(limit) :
                    Answer("journal_entries", args, fault, 200,
                           [entries |-> entries, total_count |-> Len(entries)])
        /\ UNCHANGED <<tables, now>>

\* The bindings of the name log_breathing_session in app.py's namespace, in
\* the order the module executes them: the import from database, then the
\* def of the /api/breathing view, which takes no parameter.
log_breathing_session_bindings == <<
    [module |-> "database", params |-> 3],
    [module |-> "app", params |-> 0] >>

\* What the name log_breathing_session refers to when a request runs.
log_breathing_session_global ==
    log_breathing_session_bindings[Len(log_breathing_session_bindings)]

\* Mutant of app_log_breathing_session: only duration is looked for, and
\* data['cycles_completed'] raises KeyError when it is not there.
app_log_breathing_session_duration_only(data, fault) ==
    /\ IF "duration" \notin DOMAIN data
       THEN Answer("breathing", data, fault, 400,
                   [error |-> "Missing duration or cycles_completed"])
       ELSE Answer("breathing", data, fault, 500,
                   [error |-> "Breathing session error: KeyError or TypeError"])
    /\ UNCHANGED <<tables, now>>

\* POST /api/breathing.  The call log_breathing_session(duration,
\* cycles_completed, session_type) goes to what the name refers to; three
\* arguments to a function of another arity raise TypeError.
app_log_breathing_session(data, fault) ==
    IF "duration" \notin DOMAIN data \/ "cycles_completed" \notin DOMAIN data
    THEN /\ Answer("breathing", data, fault, 400,
                   [error |-> "Missing duration or cycles_completed"])
         /\ UNCHANGED <<tables, now>>
    ELSE
    LET duration == data.duration
        cycles_completed == data.cycles_completed
        session_type == Get(data, "session_type", "4-7-8")
    IN  IF log_breathing_session_global.params # 3
        THEN /\ Answer("breathing", data, fault, 500,
                       [error |-> "Breathing session error: TypeError"])
             /\ UNCHANGED <<tables, now>>
        ELSE IF fault
        THEN /\ Answer("breathing", data, fault, 500,
                       [error |-> "Breathing session error: sqlite3.Error"])
             /\ UNCHANGED <<tables, now>>
        ELSE /\ log_breathing_session(duration, cycles_completed, session_type)
             /\ Answer("breathing", data, fault, 200,
                       [status |-> "success",
                        message |-> "Breathing session logged",
                        session_id |-> next_rowid(breathing_sessions,
                                                  "breathing_sessions"),
                        timestamp |-> now])
             /\ UNCHANGED now

\* GET /api/dashboard/stats.
get_dashboard_statistics(fault) ==
    /\ IF fault
       THEN Answer("stats", NoData, fault, 500,
                   [error |-> "Dashboard stats error: sqlite3.Error"])
       ELSE \E stats \in get_mood_statistics :
                Answer("stats", NoData, fault, 200, stats)
    /\ UNCHANGED <<tables, now>>

\* GET /api/settings.
user_settings_get(fault) ==
    /\ IF fault
       THEN Answer("settings_get", NoData, fault, 500,
                   [error |-> "Settings fetch error: sqlite3.Error"])
       ELSE Answer("settings_get", NoData, fault, 200,
                   [notifications |-> get_user_setting("notifications", "true"),
                    theme |-> get_user_setting("theme", "light"),
                    reminder_frequency |-> get_user_setting("reminder_frequency", "daily"),
                    name |-> get_user_setting("name", "Friend")])
    /\ UNCHANGED <<tables, now>>

\* str(value) of a str-or-None value.
str(value) == IF value = None THEN "None" ELSE value

\* The for loop of POST /api/settings over data.items(), from item k on:
\* one update_user_setting (one commit) per item.  The call for item
\* `fault_at` raises; the items before it stay written.
RECURSIVE update_settings(_, _, _, _)
update_settings(items, k, fault_at, store) ==
    IF k > Len(items) \/ k = fault_at THEN store
    ELSE update_settings(items, k + 1, fault_at,
             update_user_setting(store.rows, store.seq, items[k][1], str(items[k][2])))

\* POST /api/settings.  `items` are the members of the JSON object, in order;
\* fault_at = 0: no call raises.
user_settings_post(items, fault_at) ==
    IF items = <<>>
    THEN /\ Answer("settings_post", items, FALSE, 400,
                   [error |-> "No settings data provided"])
         /\ UNCHANGED <<tables, now>>
    ELSE
    LET store == update_settings(items, 1, fault_at,
                     [rows |-> user_settings, seq |-> sqlite_sequence["user_settings"]])
    IN  /\ user_settings' = store.rows
        /\ sqlite_sequence' = [sqlite_sequence EXCEPT !["user_settings"] = store.seq]
        /\ UNCHANGED <<moods, journal_entries, chat_conversations, breathing_sessions,
                       schema, connections, now>>
        /\ IF fault_at \in DOMAIN items
           THEN Answer("settings_post", items, TRUE, 500,
                       [error |-> "Settings update error: sqlite3.Error"])
           ELSE Answer("settings_post", items, FALSE, 200,
                       [status |-> "success",
                        message |-> "Settings updated successfully"])

\* Mutant of create_table_if_not_exists: the table is made anew.
create_table_anew(name, rows) == <<>>

\* CREATE TABLE IF NOT EXISTS: a table the file holds keeps its rows; one it
\* does not hold is created empty.
create_table_if_not_exists(name, rows) ==
    IF name \in DOMAIN schema THEN rows ELSE <<>>

\* The columns of the CREATE TABLE statements of database.init_database.
database_tables ==
    [moods |-> {"id", "mood_type", "mood_emoji", "intensity", "notes",
                "timestamp", "created_at"},
     journal_entries |-> {"id", "title", "content", "mood_at_time", "tags",
                          "timestamp", "created_at"},
     chat_conversations |-> {"id", "user_message", "ai_response",
                             "conversation_id", "timestamp", "created_at"},
     breathing_sessions |-> {"id", "session_duration", "cycles_completed",
                             "session_type", "timestamp", "created_at"},
     user_settings |-> {"id", "setting_key", "setting_value", "updated_at"}]

\* The columns of the CREATE TABLE statements of perfect_setup.fix_all_issues.
perfect_setup_tables ==
    [moods |-> {"id", "date", "mood", "mood_emoji", "intensity", "notes",
                "timestamp"},
     journal_entries |-> {"id", "title", "content", "mood_at_time", "tags",
                          "timestamp"},
     chat_conversations |-> {"id", "user_message", "ai_response",
                             "conversation_id", "timestamp"},
     breathing_sessions |-> {"id", "session_duration", "cycles_completed",
                             "session_type", "timestamp"}]

\* The schema after CREATE TABLE IF NOT EXISTS for each table of `created`:
\* a table the file holds keeps its columns.
create_tables(created) ==
    [t \in DOMAIN schema \cup DOMAIN created |->
        IF t \in DOMAIN schema THEN schema[t] ELSE created[t]]

\* database.init_database(): the five CREATE TABLE IF NOT EXISTS statements
\* and the commit.
init_database ==
    /\ moods' = create_table_if_not_exists("moods", moods)
    /\ journal_entries' =
          create_table_if_not_exists("journal_entries", journal_entries)
    /\ chat_conversations' =
          create_table_if_not_exists("chat_conversations", chat_conversations)
    /\ breathing_sessions' =
          create_table_if_not_exists("breathing_sessions", breathing_sessions)
    /\ user_settings' = create_table_if_not_exists("user_settings", user_settings)
    /\ schema' = create_tables(database_tables)
    /\ Answer("init_database", NoData, FALSE, 0,
              [printed |-> "Database initialized successfully!"])
    /\ UNCHANGED <<sqlite_sequence, connections, now>>

\* The "Create perfect database" part of perfect_setup.fix_all_issues, were
\* it reached: four CREATE TABLE IF NOT EXISTS statements on wellbeing.db and
\* the commit.
fix_all_issues_reaching_database ==
    /\ moods' = create_table_if_not_exists("moods", moods)
    /\ journal_entries' =
          create_table_if_not_exists("journal_entries", journal_entries)
    /\ chat_conversations' =
          create_table_if_not_exists("chat_conversations", chat_conversations)
    /\ breathing_sessions' =
          create_table_if_not_exists("breathing_sessions", breathing_sessions)
    /\ schema' = create_tables(perfect_setup_tables)
    /\ Answer("fix_all_issues", NoData, FALSE, 0,
              [printed |-> "Database configured perfectly"])
    /\ UNCHANGED <<user_settings, sqlite_sequence, connections, now>>

\* perfect_setup.fix_all_issues().  The function imports subprocess in its
\* body further down (the "Test the application" part) and its nested
\* run_server uses the name, so `subprocess` is a local of fix_all_issues in
\* all of its body: the first statement that names it, the pip call of the
\* "Install dependencies" part, raises UnboundLocalError, the except clause
\* around it logs the failure and the function returns False.  The parts
\* after it, the database one included, are never run.
fix_all_issues ==
    /\ Answer("fix_all_issues", NoData, FALSE, 0,
              [printed |-> "Dependency installation failed", returned |-> FALSE])
    /\ UNCHANGED <<tables, now>>

\* The statement's table is in the file and holds the columns it names;
\* otherwise sqlite3 raises OperationalError (no such table, no such column).
has_columns(table, columns) ==
    /\ table \in DOMAIN schema
    /\ columns \subseteq schema[table]

\* A call of a database.py function that raised.
Raised(op, data) ==
    /\ Answer(op, data, TRUE, 0, [raised |-> "sqlite3.OperationalError"])
    /\ UNCHANGED <<tables, now>>

\* database.log_mood(...) called on the file as it is.
call_log_mood(data) ==
    IF has_columns("moods", {"mood_type", "mood_emoji", "intensity", "notes"})
    THEN /\ log_mood(data.mood_type, data.mood_emoji,
                     Get(data, "intensity", 5), Get(data, "notes", ""))
         /\ Answer("log_mood", data, FALSE, 0,
                   [returned |-> next_rowid(moods, "moods")])
         /\ UNCHANGED now
    ELSE Raised("log_mood", data)

\* database.get_mood_history(days) called on the file as it is.
call_get_mood_history(args) ==
    IF has_columns("moods", {"mood_type", "mood_emoji", "intensity", "notes",
                             "timestamp"})
    THEN /\ \E mood_history \in get_mood_history(Get(args, "days", 30)) :
                Answer("get_mood_history", args, FALSE, 0,
                       [returned |-> mood_history])
         /\ UNCHANGED <<tables, now>>
    ELSE Raised("get_mood_history", args)

\* database.get_mood_statistics() called on the file as it is.
call_get_mood_statistics ==
    IF /\ has_columns("moods", {"mood_type", "intensity", "timestamp"})
       /\ has_columns("journal_entries", {})
       /\ has_columns("breathing_sessions", {})
    THEN /\ \E stats \in get_mood_statistics :
                Answer("get_mood_statistics", NoData, FALSE, 0,
                       [returned |-> stats])
         /\ UNCHANGED <<tables, now>>
    ELSE Raised("get_mood_statistics", NoData)

\* Time passes.
Tick(seconds) ==
    /\ now' = now + seconds
    /\ UNCHANGED <<tables, last>>

(***************************************************************************)
(* Initial state: the tables as init_database creates them, empty.         *)
(***************************************************************************)
Init ==
    /\ moods = <<>>
    /\ journal_entries = <<>>
    /\ chat_conversations = <<>>
    /\ breathing_sessions = <<>>
    /\ user_settings = <<>>
    /\ sqlite_sequence = [t \in TableNames |-> 0]
    /\ schema = database_tables
    /\ connections = [c \in 1..MaxCalls |-> NoConnection]
    /\ now = 0
    /\ last = [op |-> "start", data |-> NoData, remote |-> NoRemote,
               fault |-> FALSE, status |-> 0, body |-> NoData,
               is_crisis |-> FALSE, remote_calls |-> 0]

(***************************************************************************)
(* SpecChat: one chat request, over every message made of at most MaxFrags *)
(* fragments, every outcome of the completion call and of the store.       *)
(***************************************************************************)
Fragments ==
    {"suicide", "KILL MYSELF", "end it all", "Hurt Myself", "self-harm",
     "crisis", "stressed", "anxious", "sad", "SAD", "happy", "tired",
     " ", "x"}

RECURSIVE Concats(_)
Concats(n) ==
    IF n = 0 THEN {""}
    ELSE LET shorter == Concats(n - 1)
         IN  shorter \cup {a \o f : a \in shorter, f \in Fragments}

Messages == Concats(MaxFrags)

\* What the completion call can do: raise, or return a completion whose
\* content is None, empty, blank, or text with whitespace around it.
Completions ==
    {[raises |-> TRUE, content |-> None]} \cup
    {[raises |-> FALSE, content |-> c] :
        c \in {None, "", "  ", " I hear you. "}}

ConversationIds == {"c1", None}

ChatPayloads(msgs, ids) ==
    {[message |-> m] : m \in msgs} \cup
    {[message |-> m, conversation_id |-> c] : m \in msgs, c \in ids}

ChatRequest(payloads, completions) ==
    \E data \in payloads, remote \in completions, fault \in BOOLEAN :
        chat_with_ai(data, remote, fault)

NextChat ==
    /\ last.op = "start"
    /\ ChatRequest(ChatPayloads(Messages, ConversationIds), Completions)

SpecChat == Init /\ [][NextChat]_vars

(***************************************************************************)
(* Spec: requests of every kind, one after the other, within one second of *)
(* the clock, over small payloads.                                         *)
(***************************************************************************)
StoreMessages == {"", "  ", "crisis", "so sad"}

StoreCompletions ==
    {[raises |-> TRUE, content |-> None], [raises |-> FALSE, content |-> " I hear you. "]}

StoreChatPayloads == {NoData} \cup ChatPayloads(StoreMessages, {None})

MoodPayloads ==
    {NoData,
     [mood_type |-> "happy"],
     [mood_emoji |-> ":)"],
     [mood_type |-> "happy", mood_emoji |-> ":)", intensity |-> 8, notes |-> "test"],
     [mood_type |-> "sad", mood_emoji |-> ":("],
     [mood_type |-> " ", mood_emoji |-> ":|", intensity |-> 0, notes |-> ""]}

JournalPayloads ==
    {[title |-> "Test"],
     [content |-> "  "],
     [content |-> "note"],
     [content |-> " note ", title |-> " Title ", mood_at_time |-> "happy",
      tags |-> "test"]}

BreathingPayloads ==
    {[duration |-> 60],
     [cycles_completed |-> 4],
     [duration |-> 120, cycles_completed |-> 4],
     [duration |-> 120, cycles_completed |-> 4, session_type |-> "box"]}

SettingsItems ==
    {<< >>,
     << <<"theme", "dark">> >>,
     << <<"theme", "light">> >>,
     << <<"name", "">> >>,
     << <<"name", "Ann">>, <<"theme", "dark">> >>}

HistoryArgs == {NoData, [days |-> 1], [days |-> 0]}

EntriesArgs == {NoData, [limit |-> 1], [limit |-> -1]}

ClockSteps == {1, SecondsPerDay}

\* The clock readings at most n steps from 0.
RECURSIVE ClockValues(_)
ClockValues(n) ==
    IF n = 0 THEN {0}
    ELSE LET before == ClockValues(n - 1)
         IN  before \cup {t + d : t \in before, d \in ClockSteps}

\* Rows inserted so far, all tables together.
Writes ==
    sqlite_sequence["moods"] + sqlite_sequence["journal_entries"]
    + sqlite_sequence["chat_conversations"] + sqlite_sequence["breathing_sessions"]
    + sqlite_sequence["user_settings"]

WritesLeft == Writes < MaxWrites

ChatStep == WritesLeft /\ ChatRequest(StoreChatPayloads, StoreCompletions)

MoodStep ==
    WritesLeft /\ \E data \in MoodPayloads, fault \in BOOLEAN : log_user_mood(data, fault)

JournalStep ==
    WritesLeft /\ \E data \in JournalPayloads, fault \in BOOLEAN :
                      save_user_journal(data, fault)

BreathingStep ==
    WritesLeft /\ \E data \in BreathingPayloads, fault \in BOOLEAN :
                      app_log_breathing_session(data, fault)

SettingsPostStep ==
    WritesLeft /\ \E items \in SettingsItems, fault_at \in 0..2 :
                      /\ fault_at <= Len(items)
                      /\ user_settings_post(items, fault_at)

MoodHistoryStep ==
    \E args \in HistoryArgs, fault \in BOOLEAN : get_user_mood_history(args, fault)

JournalEntriesStep ==
    \E args \in EntriesArgs, fault \in BOOLEAN : get_user_journal_entries(args, fault)

StatsStep == \E fault \in BOOLEAN : get_dashboard_statistics(fault)

SettingsGetStep == \E fault \in BOOLEAN : user_settings_get(fault)

InitDatabaseStep == init_database

Next ==
    \/ ChatStep
    \/ MoodStep
    \/ JournalStep
    \/ BreathingStep
    \/ SettingsPostStep
    \/ MoodHistoryStep
    \/ JournalEntriesStep
    \/ StatsStep
    \/ SettingsGetStep
    \/ InitDatabaseStep

Spec == Init /\ [][Next]_vars

(***************************************************************************)
(* SpecMood: moods recorded and read back while time passes.               *)
(***************************************************************************)
TimedMoodPayloads ==
    {[mood_type |-> "happy", mood_emoji |-> ":)", intensity |-> 8, notes |-> "test"],
     [mood_type |-> "sad", mood_emoji |-> ":("]}

TimedHistoryArgs == {NoData, [days |-> 1], [days |-> 2]}

TimedMoodStep ==
    WritesLeft /\ \E data \in TimedMoodPayloads : log_user_mood(data, FALSE)

TimedHistoryStep == \E args \in TimedHistoryArgs : get_user_mood_history(args, FALSE)

TickStep ==
    \E seconds \in ClockSteps :
        /\ now + seconds \in ClockValues(MaxTicks)
        /\ Tick(seconds)

NextMood ==
    \/ TimedMoodStep
    \/ TimedHistoryStep
    \/ TickStep

SpecMood == Init /\ [][NextMood]_vars

(***************************************************************************)
(* SpecStats: moods recorded over months, and the dashboard statistics.    *)
(***************************************************************************)
StatsClockSteps == {1, 30 * SecondsPerDay}

\* The clock readings at most n steps of StatsClockSteps from 0.
RECURSIVE StatsClockValues(_)
StatsClockValues(n) ==
    IF n = 0 THEN {0}
    ELSE LET before == StatsClockValues(n - 1)
         IN  before \cup {t + d : t \in before, d \in StatsClockSteps}

StatsMoodStep ==
    /\ Len(moods) < MaxMoods
    /\ \E data \in TimedMoodPayloads : log_user_mood(data, FALSE)

StatsReadStep == get_dashboard_statistics(FALSE)

StatsTickStep ==
    \E seconds \in StatsClockSteps :
        /\ now + seconds \in StatsClockValues(MaxTicks)
        /\ Tick(seconds)

NextStats ==
    \/ StatsMoodStep
    \/ StatsReadStep
    \/ StatsTickStep

SpecStats == Init /\ [][NextStats]_vars

(***************************************************************************)
(***************************************************************************)
(* SpecSettings: calls of update_user_setting running at the same time.    *)
(***************************************************************************)
ConcurrentKeys == {"theme", "name"}

ConcurrentValues == {"dark", "light"}

ConnectStep ==
    \E c \in 1..MaxCalls, key \in ConcurrentKeys, value \in ConcurrentValues :
        connect(c, key, value)

ExecuteStep == \E c \in 1..MaxCalls : execute(c)

ExecuteLockedStep == \E c \in 1..MaxCalls : execute_locked(c)

CommitStep == \E c \in 1..MaxCalls : commit(c)

NextSettings ==
    \/ ConnectStep
    \/ ExecuteStep
    \/ ExecuteLockedStep
    \/ CommitStep

SpecSettings == Init /\ [][NextSettings]_vars

(***************************************************************************)
(* SpecSetup: a directory without wellbeing.db, perfect_setup's            *)
(* fix_all_issues and database's init_database run in any order and any    *)
(* number of times, and the mood functions of database.py called on the    *)
(* file they leave, while time passes.                                     *)
(***************************************************************************)
InitSetup ==
    /\ moods = <<>>
    /\ journal_entries = <<>>
    /\ chat_conversations = <<>>
    /\ breathing_sessions = <<>>
    /\ user_settings = <<>>
    /\ sqlite_sequence = [t \in TableNames |-> 0]
    /\ schema = [t \in {} |-> {}]
    /\ connections = [c \in 1..MaxCalls |-> NoConnection]
    /\ now = 0
    /\ last = [op |-> "start", data |-> NoData, remote |-> NoRemote,
               fault |-> FALSE, status |-> 0, body |-> NoData,
               is_crisis |-> FALSE, remote_calls |-> 0]

SetupInitDatabaseStep == init_database

SetupFixAllIssuesStep == fix_all_issues

SetupLogMoodStep ==
    /\ Len(moods) < MaxWrites
    /\ \E data \in TimedMoodPayloads : call_log_mood(data)

SetupMoodHistoryStep == \E args \in TimedHistoryArgs : call_get_mood_history(args)

SetupMoodStatisticsStep == call_get_mood_statistics

NextSetup ==
    \/ SetupInitDatabaseStep
    \/ SetupFixAllIssuesStep
    \/ SetupLogMoodStep
    \/ SetupMoodHistoryStep
    \/ SetupMoodStatisticsStep
    \/ TickStep

SpecSetup == InitSetup /\ [][NextSetup]_vars

(***************************************************************************)
(* What the claims speak of, stated without the handler's own operators.   *)
(***************************************************************************)
\* The six crisis phrases.
CrisisPhrases ==
    {"suicide", "kill myself", "end it all", "hurt myself", "self-harm", "crisis"}

\* The mood keywords of the Fallback Responder, in table order.
FallbackKeywords == <<"stressed", "anxious", "sad", "happy", "tired">>

\* `phrase` stands in `text` at position i, letter case ignored.
OccursAt(text, phrase, i) ==
    \A j \in 1..Len(phrase) :
        LowerChar(SubSeq(text, i + j - 1, i + j - 1)) = SubSeq(phrase, j, j)

\* `text` contains `phrase` at some position, letter case ignored.
Mentions(text, phrase) ==
    \E i \in 1..(Len(text) - Len(phrase) + 1) : OccursAt(text, phrase, i)

MentionsCrisis(text) == \E p \in CrisisPhrases : Mentions(text, p)

\* `text` is empty after trimming: it holds nothing but whitespace.
Blank(text) == \A i \in 1..Len(text) : SubSeq(text, i, i) \in Whitespace

\* The canned reply the table gives for a keyword.
ReplyFor(keyword) ==
    LET k == CHOOSE i \in DOMAIN fallback_responses :
                 fallback_responses[i].emotion = keyword
    IN  fallback_responses[k].response

\* The reply of the first keyword, in table order, that `text` contains; the
\* generic reply when it contains none.
FirstKeywordReply(text) ==
    LET hits == {k \in DOMAIN FallbackKeywords : Mentions(text, FallbackKeywords[k])}
    IN  IF hits = {} THEN generic_fallback_reply
        ELSE ReplyFor(FallbackKeywords[CHOOSE k \in hits : \A h \in hits : k <= h])

\* The last request was a chat request carrying a text message.
ChatWithText ==
    /\ last.op = "chat"
    /\ "message" \in DOMAIN last.data
    /\ last.data.message # None

\* ... and the message is not empty after trimming.
ChatAccepted == ChatWithText /\ ~Blank(last.data.message)

\* The last request was answered with a reply.
ReplyReturned == last.status = 200 /\ "reply" \in DOMAIN last.body

\* The last request took the fallback path and was answered.
FallbackAnswered ==
    /\ ChatAccepted
    /\ ~MentionsCrisis(last.data.message)
    /\ last.remote.raises
    /\ ReplyReturned

(***************************************************************************)
(* Claims.                                                                 *)
(***************************************************************************)
\* C1: every chat request whose message is not blank and contains a crisis
\* phrase (any letter case, any position) is answered with the fixed crisis
\* reply, which names the three emergency contacts, and with is_crisis true,
\* whatever the completion service would do.
C1_CrisisReplyAlways ==
    (ChatAccepted /\ MentionsCrisis(last.data.message)) =>
        /\ ReplyReturned
        /\ last.body.reply = crisis_response
        /\ Contains(Chars(last.body.reply), "741741")
        /\ Contains(Chars(last.body.reply), "988")
        /\ Contains(Chars(last.body.reply), "911")
        /\ "is_crisis" \in DOMAIN last.body
        /\ last.body.is_crisis = TRUE

\* C2: the handler's is_crisis is true exactly when the message contains one
\* of the six crisis phrases, letter case ignored, at any position (inside a
\* longer word too); it is decided by the message text alone, whatever the
\* conversation id, the completion service and the store do.
C2_ClassifierIsPhraseMatch ==
    ChatAccepted => (last.is_crisis <=> MentionsCrisis(last.data.message))

C2_Witness ==
    /\ ChatAccepted
    /\ last.data.message = "xHurt Myself"
    /\ last.is_crisis

\* C3: when a chat request with a non-crisis, non-blank message is answered
\* after the completion call failed, the reply is the Fallback Responder's
\* output for that message, and it is not the empty string.
C3_FallbackOnRemoteFailure ==
    FallbackAnswered =>
        /\ last.body.reply = fallback_reply(last.data.message)
        /\ last.body.reply # ""

C3_Witness ==
    /\ FallbackAnswered
    /\ last.data.message = " tired"
    /\ last.body.reply = ReplyFor("tired")

\* C4: the fallback reply is the reply of the first keyword, in the table
\* order stressed, anxious, sad, happy, tired, that the lower-cased message
\* contains, wherever the keywords stand in the message (with both
\* "stressed" and "sad" the stressed reply, in either order); the generic
\* reply when no keyword is contained.
C4_FirstKeywordInTableOrder ==
    /\ ChatWithText =>
          fallback_reply(last.data.message) = FirstKeywordReply(last.data.message)
    /\ FallbackAnswered =>
          /\ last.body.reply = FirstKeywordReply(last.data.message)
          /\ (Mentions(last.data.message, "stressed")
                  /\ Mentions(last.data.message, "sad")) =>
                last.body.reply = ReplyFor("stressed")

C4_Witness ==
    /\ FallbackAnswered
    /\ last.data.message = "SADstressed"
    /\ last.body.reply = ReplyFor("stressed")

\* C5: when the write of the chat turn fails, the request is still answered
\* with the reply already computed (the crisis reply on the crisis path, the
\* completion or fallback reply otherwise), as a success.
C5_ReplySurvivesStoreFailure ==
    (ChatAccepted /\ last.fault) =>
        /\ ReplyReturned
        /\ last.body.reply =
              IF MentionsCrisis(last.data.message) THEN crisis_response
              ELSE ai_reply(strip(last.data.message), last.remote)

\* C6: a chat request whose message is empty, or empty after trimming, is
\* answered 400, makes no completion call, and leaves the rows of
\* chat_conversations (and of every other table) as they were.
C6_BlankMessageRejected ==
    [][(ChatWithText /\ Blank(last.data.message))' =>
          /\ last'.status = 400
          /\ last'.remote_calls = 0
          /\ chat_conversations' = chat_conversations
          /\ tables' = tables]_vars

C6_Witness ==
    /\ ChatWithText
    /\ last.data.message = "  "
    /\ last.status = 400
    /\ Len(chat_conversations) > 0

\* C7: every successful chat response carries reply, conversation_id and
\* is_crisis, and is_crisis is the classification of the message: true on
\* the crisis path, false on the completion and fallback paths.
C7_ResultCarriesIsCrisis ==
    (last.op = "chat" /\ last.status = 200) =>
        /\ {"reply", "conversation_id", "is_crisis"} \subseteq DOMAIN last.body
        /\ last.body.is_crisis = MentionsCrisis(last.data.message)

\* The last request was a breathing request with both required fields, and
\* the store did not fail.
BreathingSupplied ==
    /\ last.op = "breathing"
    /\ {"duration", "cycles_completed"} \subseteq DOMAIN last.data
    /\ ~last.fault

\* `after` is `before` with one row more, whose id is above every id of before.
AppendedOne(before, after) ==
    /\ Len(after) = Len(before) + 1
    /\ SubSeq(after, 1, Len(before)) = before
    /\ \A i \in DOMAIN before : after[Len(after)].id > before[i].id

\* C8: a breathing request with duration and cycles_completed (session_type
\* "4-7-8" when not given) succeeds, returns the id of the new row, and adds
\* exactly one row with those values, so that total_breathing_sessions of
\* the dashboard statistics grows by one.
C8_BreathingSessionLogged ==
    [][BreathingSupplied' =>
          /\ last'.status = 200
          /\ AppendedOne(breathing_sessions, breathing_sessions')
          /\ LET row == breathing_sessions'[Len(breathing_sessions')]
             IN  /\ last'.body.session_id = row.id
                 /\ row.session_duration = last'.data.duration
                 /\ row.cycles_completed = last'.data.cycles_completed
                 /\ row.session_type = Get(last'.data, "session_type", "4-7-8")
          /\ \A before \in get_mood_statistics, after \in get_mood_statistics' :
                after.total_breathing_sessions = before.total_breathing_sessions + 1
      ]_vars

\* C9: every successful chat, mood, journal or breathing request adds exactly
\* one row to its own table, whose id is above every id the table held
\* before, and changes no other table.
C9_OneRowOwnTableRisingId ==
    [][(last'.status = 200
            /\ last'.op \in {"chat", "mood", "journal", "breathing"}) =>
          /\ last'.op = "chat" =>
                /\ AppendedOne(chat_conversations, chat_conversations')
                /\ UNCHANGED <<moods, journal_entries, breathing_sessions,
                               user_settings>>
          /\ last'.op = "mood" =>
                /\ AppendedOne(moods, moods')
                /\ UNCHANGED <<journal_entries, chat_conversations,
                               breathing_sessions, user_settings>>
          /\ last'.op = "journal" =>
                /\ AppendedOne(journal_entries, journal_entries')
                /\ UNCHANGED <<moods, chat_conversations, breathing_sessions,
                               user_settings>>
          /\ last'.op = "breathing" =>
                /\ AppendedOne(breathing_sessions, breathing_sessions')
                /\ UNCHANGED <<moods, journal_entries, chat_conversations,
                               user_settings>>
      ]_vars

C9_Witness ==
    /\ last.op = "mood"
    /\ last.status = 200
    /\ Len(moods) = 2
    /\ moods[2].id > moods[1].id
    /\ last.body.mood_id = moods[2].id

\* A timestamp is within the last `days` days of the clock.
WithinLastDays(timestamp, days) == now - timestamp <= days * 24 * 60 * 60

\* The history entry a mood row is read back as.
EntryOf(row) ==
    [type |-> row.mood_type, emoji |-> row.mood_emoji,
     intensity |-> row.intensity, notes |-> row.notes,
     timestamp |-> row.timestamp]

\* C10: a mood history read over days >= 1 returns one entry per mood row
\* whose timestamp is within the last `days` days, and no other entry; so a
\* mood just recorded, if still that recent, is read back with exactly its
\* type, emoji, intensity and notes.
C10_HistoryHoldsRecentMoods ==
    [][(last'.op = "mood_history" /\ last'.status = 200 /\ now' = now
            /\ last'.body.days_requested >= 1) =>
          LET days == last'.body.days_requested
              result == last'.body.moods
              recent == {i \in DOMAIN moods : WithinLastDays(moods[i].timestamp, days)}
          IN  /\ \A i \in DOMAIN moods :
                    (\E k \in DOMAIN result : result[k] = EntryOf(moods[i]))
                        <=> i \in recent
              /\ \A k \in DOMAIN result :
                    \E i \in recent : result[k] = EntryOf(moods[i])
              /\ Len(result) = Cardinality(recent)
              /\ (last.op = "mood" /\ last.status = 200 /\ Len(moods) \in recent) =>
                    \E k \in DOMAIN result :
                        /\ result[k].type = last.data.mood_type
                        /\ result[k].emoji = last.data.mood_emoji
                        /\ result[k].intensity = Get(last.data, "intensity", 5)
                        /\ result[k].notes = Get(last.data, "notes", "")
      ]_vars

C10_Witness ==
    /\ last.op = "mood_history"
    /\ last.status = 200
    /\ last.body.days_requested = 1
    /\ Len(moods) = 2
    /\ now - moods[1].timestamp > SecondsPerDay
    /\ now - moods[2].timestamp = SecondsPerDay
    /\ Len(last.body.moods) = 1
    /\ last.body.moods[1].type = moods[2].mood_type

\* C11: a mood history read returns the entries newest first: of two mood
\* rows in the result, the entry of the one recorded later stands before the
\* entry of the one recorded earlier, also when both carry the same second.
C11_LaterRecordedStandsFirst ==
    [][(last'.op = "mood_history" /\ last'.status = 200 /\ now' = now) =>
          LET days == last'.body.days_requested
              result == last'.body.moods
              recent == {i \in DOMAIN moods : WithinLastDays(moods[i].timestamp, days)}
          IN  \A earlier, later \in recent :
                  earlier < later =>
                      \E a, b \in DOMAIN result :
                          /\ a < b
                          /\ result[a] = EntryOf(moods[later])
                          /\ result[b] = EntryOf(moods[earlier])
      ]_vars

\* C12: the dashboard statistics hold in mood_counts one element per mood
\* type recorded in the last 30 days, its count the number of mood rows of
\* that type in those 30 days, the elements in descending order of count.
C12_MoodCountsPerTypeDescending ==
    [][(last'.op = "stats" /\ last'.status = 200 /\ now' = now) =>
          LET counts == last'.body.mood_counts
              recent == {i \in DOMAIN moods : WithinLastDays(moods[i].timestamp, 30)}
              types == {moods[i].mood_type : i \in recent}
          IN  /\ {counts[k].mood : k \in DOMAIN counts} = types
              /\ Len(counts) = Cardinality(types)
              /\ \A k \in DOMAIN counts :
                    counts[k].count =
                        Cardinality({i \in recent : moods[i].mood_type = counts[k].mood})
              /\ \A a, b \in DOMAIN counts :
                    a < b => counts[a].count >= counts[b].count
      ]_vars

\* Three happy rows and two sad rows, a sad one recorded first.
C12_Witness ==
    /\ last.op = "stats"
    /\ last.status = 200
    /\ Len(moods) = 5
    /\ moods[1].mood_type = "sad"
    /\ last.body.mood_counts =
          << [mood |-> "happy", count |-> 3], [mood |-> "sad", count |-> 2] >>

\* Keys and defaults a caller of get_user_setting may pass.
SettingKeys == {"theme", "name", "unset_key"}

SettingDefaults == {"light", "fallback", ""}

\* The value the last item of `items` for `key` carries.
LastSet(items, key) ==
    LET at == {i \in DOMAIN items : items[i][1] = key}
    IN  items[CHOOSE i \in at : \A j \in at : j <= i][2]

\* C13: get_user_setting(key, default) returns the default, whatever it is,
\* while the key was never set; after a settings update it returns, for
\* every key the update sets and whatever the default, the value set last;
\* and nothing but a settings update changes what it returns.
C13_SettingReadsLastWrite ==
    /\ \A key \in SettingKeys, default \in SettingDefaults :
          get_user_setting(key, default) = default
    /\ [][\A key \in SettingKeys, default \in SettingDefaults :
             /\ (last'.op = "settings_post" /\ last'.status = 200) =>
                   get_user_setting(key, default)' =
                       IF \E i \in DOMAIN last'.data : last'.data[i][1] = key
                       THEN LastSet(last'.data, key)
                       ELSE get_user_setting(key, default)
             /\ last'.op # "settings_post" =>
                   get_user_setting(key, default)' = get_user_setting(key, default)
         ]_vars

\* "theme" set twice, the second time to "light"; "unset_key" never.
C13_Witness ==
    /\ last.op = "settings_post"
    /\ last.status = 200
    /\ last.data = << <<"theme", "light">> >>
    /\ sqlite_sequence["user_settings"] = 2
    /\ Len(user_settings) = 1
    /\ get_user_setting("theme", "fallback") = "light"
    /\ get_user_setting("unset_key", "fallback") = "fallback"

\* C14: for every integer limit, a journal entries read returns at most
\* `limit` entries (none for a limit below 1), and they are the entries
\* recorded last, the one recorded last of all first.
C14_LatestEntriesWithinLimit ==
    (last.op = "journal_entries" /\ last.status = 200) =>
        LET limit == Get(last.data, "limit", 20)
            most == IF limit < 0 THEN 0 ELSE limit
            result == last.body.entries
            n == Len(journal_entries)
        IN  /\ Len(result) <= most
            /\ Len(result) = IF most < n THEN most ELSE n
            /\ \A k \in DOMAIN result :
                  result[k].id = journal_entries[n - k + 1].id

\* The fields a write request must carry.
RequiredFields(op) ==
    CASE op = "chat" -> {"message"}
      [] op = "mood" -> {"mood_type", "mood_emoji"}
      [] op = "journal" -> {"content"}
      [] op = "breathing" -> {"duration", "cycles_completed"}
      [] OTHER -> {}

\* The last request was a write request without one of its required fields.
LacksRequiredField ==
    /\ last.op \in {"chat", "mood", "journal", "breathing"}
    /\ ~(RequiredFields(last.op) \subseteq DOMAIN last.data)

\* C15: a chat, mood, journal or breathing request whose payload lacks a
\* required field is answered 400 and leaves every table as it was.
C15_MissingFieldRejected ==
    [][LacksRequiredField' => (last'.status = 400 /\ tables' = tables)]_vars

C15_Witness ==
    /\ last.op = "breathing"
    /\ last.data = [duration |-> 60]
    /\ last.status = 400
    /\ Len(moods) > 0

\* `trimmed` is `text` without its leading and trailing whitespace.
IsTrimOf(trimmed, text) ==
    \E i \in 1..(Len(text) + 1), j \in 0..Len(text) :
        /\ trimmed = SubSeq(text, i, j)
        /\ \A k \in 1..Len(text) :
              (k < i \/ k > j) => SubSeq(text, k, k) \in Whitespace
        /\ i <= j => /\ SubSeq(text, i, i) \notin Whitespace
                     /\ SubSeq(text, j, j) \notin Whitespace

\* The last request was a journal request carrying content.
JournalWithContent ==
    /\ last.op = "journal"
    /\ "content" \in DOMAIN last.data
    /\ last.data.content # None

\* C16: a journal request whose content is empty after trimming is answered
\* 400 and writes no journal row; one with other content that succeeds
\* stores the trimmed content and the trimmed title ("" when none is given).
C16_JournalContentTrimmed ==
    [][JournalWithContent' =>
          /\ Blank(last'.data.content) =>
                (last'.status = 400 /\ tables' = tables)
          /\ (~Blank(last'.data.content) /\ last'.status = 200) =>
                /\ Len(journal_entries') = Len(journal_entries) + 1
                /\ LET row == journal_entries'[Len(journal_entries')]
                   IN  /\ IsTrimOf(row.content, last'.data.content)
                       /\ IsTrimOf(row.title, Get(last'.data, "title", ""))
                       /\ row.id = last'.body.entry_id
      ]_vars

C16_Witness ==
    /\ JournalWithContent
    /\ last.data.content = " note "
    /\ last.data.title = " Title "
    /\ last.status = 200
    /\ journal_entries[Len(journal_entries)].content = "note"
    /\ journal_entries[Len(journal_entries)].title = "Title"

\* C17: init_database, called any number of times at any point between
\* requests, leaves every row of the five tables, the ids given so far and
\* the set of tables as they were: the store is as after the first call.
C17_InitDatabaseIdempotent ==
    [][last'.op = "init_database" =>
          /\ moods' = moods
          /\ journal_entries' = journal_entries
          /\ chat_conversations' = chat_conversations
          /\ breathing_sessions' = breathing_sessions
          /\ user_settings' = user_settings
          /\ sqlite_sequence' = sqlite_sequence
          /\ schema' = schema
          /\ DOMAIN schema' = TableNames
      ]_vars

\* init_database called after moods and settings were stored.
C17_Witness ==
    /\ last.op = "init_database"
    /\ Len(moods) > 0
    /\ Len(user_settings) > 0

\* C18: for every accepted message and every outcome of the completion call
\* (raise, text, empty text, whitespace-only text, no content), when the
\* store takes the row, the reply returned is a string that is not empty,
\* and it is the reply stored in chat_conversations.
C18_ReplyNeverEmpty ==
    (ChatAccepted /\ ~last.fault) =>
        /\ ReplyReturned
        /\ last.body.reply # None
        /\ last.body.reply # ""
        /\ Len(chat_conversations) > 0
        /\ chat_conversations[Len(chat_conversations)].ai_response = last.body.reply

\* The replies the fallback can give.
FallbackTexts ==
    {ReplyFor(k) : k \in {FallbackKeywords[i] : i \in DOMAIN FallbackKeywords}}
        \cup {generic_fallback_reply}

\* C19: a chat request makes exactly one completion call when its message is
\* accepted and is not crisis language, and none when the message is crisis
\* language or is turned away; a fallback text is returned only when that
\* one call was made and failed.
C19_OneCompletionCall ==
    last.op = "chat" =>
        /\ last.remote_calls =
              IF ChatAccepted /\ ~MentionsCrisis(last.data.message) THEN 1 ELSE 0
        /\ (ReplyReturned /\ last.body.reply \in FallbackTexts) =>
              (last.remote.raises /\ last.remote_calls = 1)

C19_Witness ==
    /\ ChatAccepted
    /\ last.data.message = "anxiousx"
    /\ last.remote.raises
    /\ last.remote_calls = 1
    /\ last.status = 200
    /\ last.body.reply = ReplyFor("anxious")

\* The last request was accepted, was not crisis language, its completion
\* call returned, and a reply was returned.
CompletionAnswered ==
    /\ ChatAccepted
    /\ ~MentionsCrisis(last.data.message)
    /\ ~last.remote.raises
    /\ ReplyReturned

\* C20: when the completion call returns text that is not empty, the reply
\* is that text without its leading and trailing whitespace; when it returns
\* empty text, the reply is "I'm here to listen. Please tell me more."; in
\* neither case is the reply taken from the fallback.
C20_CompletionTextTrimmed ==
    (CompletionAnswered /\ last.remote.content # None) =>
        /\ last.remote.content # "" =>
              IsTrimOf(last.body.reply, last.remote.content)
        /\ last.remote.content = "" =>
              last.body.reply = "I'm here to listen. Please tell me more."
        /\ last.body.reply \notin FallbackTexts

C20_Witness ==
    /\ CompletionAnswered
    /\ last.data.message = "sad"
    /\ last.remote.content = " I hear you. "
    /\ last.body.reply = "I hear you."

\* C21: the row stored for a chat turn holds the turn's user message, reply
\* and conversation id, and whether the turn was a crisis turn.
C21_StoredTurnRecordsCrisis ==
    (ChatAccepted /\ ReplyReturned) =>
        LET row == chat_conversations[Len(chat_conversations)]
        IN  /\ IsTrimOf(row.user_message, last.data.message)
            /\ row.ai_response = last.body.reply
            /\ "is_crisis" \in DOMAIN row
            /\ row.is_crisis = MentionsCrisis(last.data.message)

\* The sum of the intensities of the mood rows at the indices idx.
RECURSIVE TotalIntensity(_)
TotalIntensity(idx) ==
    IF idx = {} THEN 0
    ELSE LET i == CHOOSE x \in idx : \A y \in idx : y <= x
         IN  moods[i].intensity + TotalIntensity(idx \ {i})

\* The distance of two integers.
Distance(a, b) == IF a < b THEN b - a ELSE a - b

\* C22: avg_intensity of the dashboard statistics, in tenths, is a tenth
\* nearest to the mean intensity of the mood rows of the last 7 days when
\* there is such a row, whatever the intensities (0 among them), and is 50
\* (the default 5) when there is none.
C22_AvgIntensityIsMean ==
    (last.op = "stats" /\ last.status = 200) =>
        LET recent == {i \in DOMAIN moods : WithinLastDays(moods[i].timestamp, 7)}
            n == Cardinality(recent)
            avg == last.body.avg_intensity
        IN  IF n = 0 THEN avg = 50
            ELSE 2 * Distance(10 * TotalIntensity(recent), avg * n) <= n

\* The calls of update_user_setting on `key` that have committed.
DoneOn(key) ==
    {c \in DOMAIN connections :
        connections[c].state = "done" /\ connections[c].key = key}

\* Call c on `key` started after every other call on that key had finished.
AfterAllOthers(c, key) ==
    \A d \in DOMAIN connections :
        (d # c /\ connections[d].key = key) =>
            /\ connections[d].state \in {"done", "failed"}
            /\ connections[d].finished < connections[c].started

\* C23: whatever the interleaving of update_user_setting calls, two of them
\* at once on one key included, user_settings holds at most one row per key,
\* a row for every key a completed call set, its value the value of one of
\* the completed calls on that key, and of the last one when that call
\* started after the others had finished; and a call's commit leaves what
\* is read for every other key as it was.
C23_OneRowPerKeyUnderInterleaving ==
    /\ [](/\ \A i, j \in DOMAIN user_settings :
                user_settings[i].setting_key = user_settings[j].setting_key => i = j
          /\ \A i \in DOMAIN user_settings :
                \E c \in DoneOn(user_settings[i].setting_key) :
                    connections[c].value = user_settings[i].setting_value
          /\ \A key \in ConcurrentKeys :
                \A c \in DoneOn(key) :
                    /\ \E i \in DOMAIN user_settings :
                          user_settings[i].setting_key = key
                    /\ AfterAllOthers(c, key) =>
                          get_user_setting(key, None) = connections[c].value)
    /\ [][\A c \in DOMAIN connections :
             (connections[c].state = "written" /\ connections'[c].state = "done") =>
                 \A key \in ConcurrentKeys \ {connections[c].key} :
                     get_user_setting(key, None)' = get_user_setting(key, None)
         ]_vars

\* Two calls on "theme" were in flight together, one was written while the
\* other was open, and both have committed.
C23_Witness ==
    /\ connections[1].state = "done"
    /\ connections[2].state = "done"
    /\ connections[1].key = "theme"
    /\ connections[2].key = "theme"
    /\ connections[1].value # connections[2].value
    /\ connections[2].started < connections[1].finished
    /\ connections[1].started < connections[2].finished
    /\ Len(user_settings) = 1

\* The last request was a mood request carrying both required fields as
\* text, one of them empty after trimming, and the store did not fail.
MoodWithBlankField ==
    /\ last.op = "mood"
    /\ {"mood_type", "mood_emoji"} \subseteq DOMAIN last.data
    /\ last.data.mood_type # None
    /\ last.data.mood_emoji # None
    /\ Blank(last.data.mood_type) \/ Blank(last.data.mood_emoji)
    /\ ~last.fault

\* C24: a mood request whose mood_type or mood_emoji is present but empty
\* after trimming is answered 400, as when the field is missing, and writes
\* no mood row.
C24_BlankMoodFieldRejected ==
    [][MoodWithBlankField' => (last'.status = 400 /\ moods' = moods)]_vars

\* Every row of `before` is in `after`, at its place and as it was.
KeepsRows(before, after) ==
    /\ Len(after) >= Len(before)
    /\ SubSeq(after, 1, Len(before)) = before

\* C25: under every request the mood, journal, chat and breathing tables
\* only grow at the end: a row once written is neither modified nor removed;
\* and the read requests (mood history, journal entries, dashboard
\* statistics, settings get) leave all five tables as they were.
C25_AppendOnlyAndReadsPure ==
    [][/\ KeepsRows(moods, moods')
       /\ KeepsRows(journal_entries, journal_entries')
       /\ KeepsRows(chat_conversations, chat_conversations')
       /\ KeepsRows(breathing_sessions, breathing_sessions')
       /\ last'.op \in {"mood_history", "journal_entries", "stats", "settings_get"} =>
             /\ moods' = moods
             /\ journal_entries' = journal_entries
             /\ chat_conversations' = chat_conversations
             /\ breathing_sessions' = breathing_sessions
             /\ user_settings' = user_settings
      ]_vars

\* A second mood of a type already stored was written, then read back.
C25_Witness ==
    /\ last.op = "mood_history"
    /\ last.status = 200
    /\ Len(moods) = 2
    /\ moods[1].mood_type = moods[2].mood_type
    /\ moods[1].id = 1

\* C26: for every chat request answered with a reply, the conversation_id
\* returned is the conversation_id stored in the row of that turn, whether
\* the caller gave an id (a null one included) or the id was generated.
C26_ReturnedIdIsStoredId ==
    (ChatAccepted /\ ReplyReturned) =>
        chat_conversations[Len(chat_conversations)].conversation_id
            = last.body.conversation_id

\* The columns the writes and reads of database.py name, per table.
UsedColumns ==
    [moods |-> {"mood_type", "mood_emoji", "intensity", "notes", "timestamp"},
     journal_entries |-> {"id", "title", "content", "mood_at_time", "tags",
                          "timestamp"},
     chat_conversations |-> {"user_message", "ai_response", "conversation_id"},
     breathing_sessions |-> {"session_duration", "cycles_completed",
                             "session_type"}]

====
